---------------------------- MODULE Spec2Model ----------------------------
(***************************************************************************)
(* Theme preference controller of the starter site (ThemeSelector).        *)
(*                                                                         *)
(* Several pages (browser tabs, each with its own document and its own     *)
(* ThemeSelector instance) share one localStorage item "theme-preference"  *)
(* and one OS colour-scheme signal.  Each page has its own data-theme      *)
(* attribute, its own React state (preference, isOpen) and its own         *)
(* listener on the (prefers-color-scheme: dark) media query.               *)
(***************************************************************************)
EXTENDS Naturals, FiniteSets, Sequences

(* Number of pages that share the store and the OS signal. *)
NumPages == 2

Pages == 1 .. NumPages

(* type ThemePreference = 'light' | 'dark' | 'system' *)
ThemePreference == {"light", "dark", "system"}

(* JavaScript null: useState(null) and a missing attribute.  Written to    *)
(* the store it would become the string "null".                            *)
Null == "null"

(* The "theme-preference" item does not exist: getItem returns null. *)
Absent == "absent"

(* Contents of the "theme-preference" item: missing, the empty string, the *)
(* three recognised strings, and a string that is none of them.            *)
StoreValues == {Absent, "", "auto"} \cup ThemePreference

(* Behaviour of window.localStorage in this browser profile:               *)
(*   "ok"     - getItem and setItem work;                                  *)
(*   "full"   - getItem works, setItem throws QuotaExceededError;          *)
(*   "denied" - touching localStorage throws SecurityError.                *)
StorageModes == {"ok", "full", "denied"}

VARIABLES
    store,        \* value of localStorage["theme-preference"]
    storage,      \* how localStorage behaves, one of StorageModes
    prefersDark,  \* the OS signal: (prefers-color-scheme: dark) matches
    attr,         \* attr[pg]: data-theme of document.documentElement
    preference,   \* preference[pg]: React state, Null before hydration
    isOpen,       \* isOpen[pg]: React state, the menu is shown
    phase,        \* phase[pg]: rendered, mounted, unmounted or failed
    listeners,    \* pages whose handleChange is registered on the query
    last          \* the operation that produced this state

(* State of the Firebase client module (lib/firebase). *)
VARIABLES
    env,          \* import.meta.env.PUBLIC_FIREBASE_CONFIG
    firebaseApp,  \* the module's cached instance, NoApp for null
    registry,     \* the default app known to firebase/app, NoApp if none
    initCalls,    \* number of initializeApp calls made by getFirebaseApp
    results,      \* every value getFirebaseApp has returned so far
    fbLast        \* the last call into the module and its outcome

(* State of one run of the configuration test script                      *)
(* (scripts/test-firebase-config.js).                                      *)
VARIABLES
    tIn,              \* process.env and the project files the run sees
    tpc,              \* the next step of runAllTests
    errors,           \* this.errors.length
    warnings,         \* this.warnings.length
    successes,        \* this.successes.length
    adminApps,        \* getApps().length of firebase-admin/app
    initState,        \* Admin SDK initialisation: none, skipped, attempted
    adminInitialized, \* what testFirebaseAdminInitialization returned
    connRan,          \* testFirestoreConnection has run
    rejected,         \* runAllTests rejected and the catch handler ran
    exitCode          \* the argument of process.exit, Running before it

(* State of the RSS endpoint (src/pages/rss.xml.ts) and of the blog        *)
(* collection it reads.                                                    *)
VARIABLES
    posts,            \* the entries of the 'blog' collection, in its order
    feed,             \* the items GET handed to rss()
    rssPhase          \* "content" while posts are written, "served" after GET

rssVars == <<posts, feed, rssPhase>>

testerVars == <<tIn, tpc, errors, warnings, successes, adminApps, initState,
                adminInitialized, connRan, rejected, exitCode>>

themeVars == <<store, storage, prefersDark, attr, preference, isOpen, phase,
               listeners, last>>

fbVars == <<env, firebaseApp, registry, initCalls, results, fbLast>>

vars == <<store, storage, prefersDark, attr, preference, isOpen, phase,
          listeners, last, env, firebaseApp, registry, initCalls, results,
          fbLast, tIn, tpc, errors, warnings, successes, adminApps,
          initState, adminInitialized, connRan, rejected, exitCode,
          posts, feed, rssPhase>>

(* Variant of getSystemTheme that answers 'dark' without a window. *)
getSystemThemeDarkDefault(hasWindow, dark) ==
    IF ~hasWindow THEN "dark"
    ELSE IF dark THEN "dark" ELSE "light"

(* getSystemTheme(): 'light' without a window, else by the media query. *)
getSystemTheme(hasWindow, dark) ==
    IF ~hasWindow THEN "light"
    ELSE IF dark THEN "dark" ELSE "light"

(* getStoredPreference(): 'system' without a window, else                  *)
(* localStorage.getItem(...) || 'system'.  null (no item) and "" are the   *)
(* falsy results; every other string is returned as it is.                 *)
getStoredPreference(hasWindow, item) ==
    IF ~hasWindow THEN "system"
    ELSE IF item = Absent \/ item = "" THEN "system"
    ELSE item

(* Variant of resolveTheme that writes the preference unresolved. *)
resolveThemeLiteral(newPreference, dark) == newPreference

(* const theme = newPreference === 'system' ? getSystemTheme()             *)
(*                                          : newPreference                *)
resolveTheme(newPreference, dark) ==
    IF newPreference = "system" THEN getSystemTheme(TRUE, dark)
    ELSE newPreference

(* localStorage.setItem throws unless the storage is "ok". *)
setItemThrows(mode) == mode # "ok"

(* Touching localStorage at all throws when the storage is "denied". *)
getItemThrows(mode) == mode = "denied"

(* Variant of initialPreference that guesses a theme before hydration. *)
initialPreferenceGuess == "light"

(* useState<ThemePreference | null>(null) *)
initialPreference == Null

(* useState(false) *)
initialIsOpen == FALSE

NoOp == [op |-> "init", page |-> 0, arg |-> Null, threw |-> FALSE]

(* Most initializeApp calls the model follows. *)
MaxApps == 2

(* let firebaseApp: FirebaseApp | null = null; apps are numbered from 1. *)
NoApp == 0

(* const requiredProps in validateConfig *)
RequiredProps == {"apiKey", "authDomain", "projectId", "storageBucket",
                  "messagingSenderId", "appId"}

(* The value of a property of the parsed configuration: not there, the     *)
(* empty string, or a non-empty string.                                    *)
PropValues == {"missing", "", "x"}

NoProps == [prop \in RequiredProps |-> "missing"]

(* PUBLIC_FIREBASE_CONFIG: not set, the empty string, text that is not     *)
(* JSON, the JSON text null, or the JSON text of an object (given by the   *)
(* values of its required properties).                                     *)
RawKinds == {"undefined", "empty", "notjson", "null"}

EnvValues ==
    {[kind |-> k, props |-> NoProps] : k \in RawKinds}
        \cup {[kind |-> "object", props |-> f] :
                 f \in [RequiredProps -> PropValues]}

(* The result null of getFirebaseConfig. *)
NullConfig == [isNull |-> TRUE, props |-> NoProps]

(* getFirebaseConfig(): null when the variable is falsy, when JSON.parse   *)
(* throws (caught), and when the text parses to null; else the object.     *)
getFirebaseConfig(configString) ==
    IF configString.kind \in {"undefined", "empty"} THEN NullConfig
    ELSE IF configString.kind = "notjson" THEN NullConfig
    ELSE IF configString.kind = "null" THEN NullConfig
    ELSE [isNull |-> FALSE, props |-> configString.props]

(* Variant of validateConfig that forgets the last required property. *)
validateConfigNoAppId(config) ==
    {prop \in RequiredProps \ {"appId"} :
        config.props[prop] = "missing" \/ config.props[prop] = ""}

(* validateConfig(config): requiredProps.filter((prop) => !config[prop]) *)
validateConfig(config) ==
    {prop \in RequiredProps :
        config.props[prop] = "missing" \/ config.props[prop] = ""}

(* Variant of hasExistingApp that never finds an app. *)
hasExistingAppNever(reg) == FALSE

(* getApps().length > 0 *)
hasExistingApp(reg) == reg # NoApp

(* Variant of isFirebaseConfigured that only checks that the value parses. *)
isFirebaseConfiguredParsesOnly(configString) ==
    ~getFirebaseConfig(configString).isNull

(* isFirebaseConfigured(): false when getFirebaseConfig gives null, else   *)
(* whether validateConfig finds nothing missing.                           *)
isFirebaseConfigured(configString) ==
    LET config == getFirebaseConfig(configString)
    IN  IF config.isNull THEN FALSE
        ELSE validateConfig(config) = {}

FbNoCall == [op |-> "none", app |-> NoApp, ok |-> FALSE, inited |-> FALSE,
             cached |-> FALSE, existed |-> FALSE, threw |-> FALSE]

(* process.exit has not been called. *)
Running == 2

(* An environment variable or object property that is not there. *)
Undef == "undefined"

(* FIREBASE_PROJECT_ID: not set, empty, or one of two project ids. *)
ProjectIdValues == {Undef, "", "p1", "p2"}

(* FIREBASE_SERVICE_ACCOUNT_KEY: falsy, text that is not JSON, the JSON    *)
(* text null, or a JSON object with its type, its project_id and whether   *)
(* the six other required fields are all there.                            *)
ServiceAccountValues ==
    {[kind |-> k, type |-> Undef, project_id |-> Undef, others |-> FALSE] :
        k \in {"unset", "notjson", "null"}}
    \cup [kind : {"object"}, type : {Undef, "service_account", "user"},
          project_id : {Undef, "p1"}, others : BOOLEAN]

(* PUBLIC_FIREBASE_CONFIG as the script sees it: falsy, not JSON, the JSON *)
(* text null, an object short of a required field, a complete object.      *)
ClientConfigValues == {"unset", "notjson", "null", "incomplete", "complete"}

(* firebase.json: no file, not JSON, no hosting key, hosting with public   *)
(* "dist", hosting with another public directory.                          *)
FirebaseJsonValues == {"absent", "notjson", "nohosting", "dist", "other"}

TesterInputs ==
    [projectId : ProjectIdValues, serviceAccountKey : ServiceAccountValues,
     clientConfig : ClientConfigValues, firebaseJson : FirebaseJsonValues,
     firebaserc : BOOLEAN]

(* !value for an environment variable *)
Falsy(value) == value = Undef \/ value = ""

(* The script has not been started. *)
TesterIdle ==
    /\ tIn = [projectId |-> Undef,
              serviceAccountKey |-> [kind |-> "unset", type |-> Undef,
                                     project_id |-> Undef, others |-> FALSE],
              clientConfig |-> "unset", firebaseJson |-> "absent",
              firebaserc |-> FALSE]
    /\ tpc = "idle"
    /\ errors = 0
    /\ warnings = 0
    /\ successes = 0
    /\ adminApps = 0
    /\ initState = "none"
    /\ adminInitialized = Undef
    /\ connRan = FALSE
    /\ rejected = FALSE
    /\ exitCode = Running

(* The collection is empty and the feed has not been requested. *)
RssIdle ==
    /\ posts = <<>>
    /\ feed = <<>>
    /\ rssPhase = "content"

(* The Firebase module has been loaded and not been called. *)
FirebaseIdle ==
    /\ env = [kind |-> "undefined", props |-> NoProps]
    /\ firebaseApp = NoApp
    /\ registry = NoApp
    /\ initCalls = 0
    /\ results = {}
    /\ fbLast = FbNoCall

Init ==
    /\ storage \in StorageModes
    /\ store \in StoreValues
    /\ storage = "denied" => store = Absent
    /\ prefersDark \in BOOLEAN
    /\ attr = [pg \in Pages |-> Null]
    /\ preference = [pg \in Pages |-> initialPreference]
    /\ isOpen = [pg \in Pages |-> initialIsOpen]
    /\ phase = [pg \in Pages |-> "rendered"]
    /\ listeners = {}
    /\ last = NoOp
    /\ FirebaseIdle
    /\ TesterIdle
    /\ RssIdle

(* The fields of the state that applyTheme reads and writes on one page. *)
PageState(pg) ==
    [attr |-> attr[pg], store |-> store, preference |-> preference[pg],
     isOpen |-> isOpen[pg], threw |-> FALSE]

(* Variant of persistedValue that stores the resolved appearance. *)
persistedValueResolved(newPreference, theme) == theme

(* localStorage.setItem('theme-preference', newPreference): the value      *)
(* handed to the store.                                                    *)
persistedValue(newPreference, theme) == newPreference

(* Variant of closeMenu that toggles the menu. *)
closeMenuToggle(open) == ~open

(* setIsOpen(false) *)
closeMenu(open) == FALSE

(* Variant of applyTheme that writes the store before the attribute. *)
applyThemeStoreFirst(s, newPreference, dark, mode) ==
    LET theme == resolveTheme(newPreference, dark)
    IN  IF setItemThrows(mode)
        THEN [s EXCEPT !.threw = TRUE]
        ELSE [s EXCEPT !.attr = theme,
                       !.store = persistedValue(newPreference, theme),
                       !.preference = newPreference,
                       !.isOpen = closeMenu(s.isOpen),
                       !.threw = FALSE]

(* applyTheme(newPreference), as a function of the page's state s, the OS  *)
(* signal and the storage mode.  The attribute is written first; when      *)
(* setItem throws, the two state setters after it are not reached.         *)
applyTheme(s, newPreference, dark, mode) ==
    LET theme == resolveTheme(newPreference, dark)
        s1 == [s EXCEPT !.attr = theme]
    IN  IF setItemThrows(mode)
        THEN [s1 EXCEPT !.threw = TRUE]
        ELSE [s1 EXCEPT !.store = persistedValue(newPreference, theme),
                        !.preference = newPreference,
                        !.isOpen = closeMenu(s.isOpen),
                        !.threw = FALSE]

(* Variant of currentPref that uses the preference state captured by the   *)
(* effect's closure at the first render.                                   *)
currentPrefFirstRender(item, pref) == initialPreference

(* Variant of currentPref that uses the page's cached React state. *)
currentPrefCached(item, pref) == pref

(* const currentPref = getStoredPreference() inside handleChange: read     *)
(* from the store when the notification fires; the React state pref is in  *)
(* scope but not used.                                                     *)
currentPref(item, pref) == getStoredPreference(TRUE, item)

(* Variant of handleChange that follows the OS whatever is stored. *)
handleChangeAlways(a, item, pref, dark, mode) == getSystemTheme(TRUE, dark)

(* handleChange(): the value of data-theme after the listener ran on a     *)
(* page whose attribute is a.                                              *)
handleChange(a, item, pref, dark, mode) ==
    IF getItemThrows(mode) THEN a
    ELSE IF currentPref(item, pref) = "system"
         THEN getSystemTheme(TRUE, dark)
         ELSE a

(* Variant of addEventListener that does not subscribe. *)
addEventListenerNoop(ls, pg) == ls

(* mediaQuery.addEventListener('change', handleChange) *)
addEventListener(ls, pg) == ls \cup {pg}

(* Variant of removeEventListener that leaves the listener registered. *)
removeEventListenerNoop(ls, pg) == ls

(* return () => mediaQuery.removeEventListener('change', handleChange) *)
removeEventListener(ls, pg) == ls \ {pg}

(* Variant of Mount that also persists the preference it has read. *)
MountPersists(pg) ==
    /\ phase[pg] = "rendered"
    /\ ~getItemThrows(storage)
    /\ preference' =
          [preference EXCEPT ![pg] = getStoredPreference(TRUE, store)]
    /\ store' = getStoredPreference(TRUE, store)
    /\ listeners' = addEventListener(listeners, pg)
    /\ phase' = [phase EXCEPT ![pg] = "mounted"]
    /\ last' = [op |-> "mount", page |-> pg, arg |-> Null, threw |-> FALSE]
    /\ UNCHANGED <<storage, prefersDark, attr, isOpen>>
    /\ UNCHANGED <<fbVars, testerVars, rssVars>>

(* useEffect(..., []) after the first render: read the store into the      *)
(* React state and subscribe.  When localStorage is denied the effect      *)
(* throws before either happens.                                           *)
Mount(pg) ==
    /\ phase[pg] = "rendered"
    /\ IF getItemThrows(storage)
       THEN /\ phase' = [phase EXCEPT ![pg] = "failed"]
            /\ last' = [op |-> "mount", page |-> pg, arg |-> Null,
                        threw |-> TRUE]
            /\ UNCHANGED <<preference, listeners>>
       ELSE /\ preference' =
                [preference EXCEPT ![pg] = getStoredPreference(TRUE, store)]
            /\ listeners' = addEventListener(listeners, pg)
            /\ phase' = [phase EXCEPT ![pg] = "mounted"]
            /\ last' = [op |-> "mount", page |-> pg, arg |-> Null,
                        threw |-> FALSE]
    /\ UNCHANGED <<store, storage, prefersDark, attr, isOpen>>
    /\ UNCHANGED <<fbVars, testerVars, rssVars>>

(* The effect's cleanup when the component is unmounted; React discards    *)
(* the instance's state.                                                   *)
Unmount(pg) ==
    /\ phase[pg] = "mounted"
    /\ listeners' = removeEventListener(listeners, pg)
    /\ phase' = [phase EXCEPT ![pg] = "unmounted"]
    /\ preference' = [preference EXCEPT ![pg] = initialPreference]
    /\ isOpen' = [isOpen EXCEPT ![pg] = initialIsOpen]
    /\ last' = [op |-> "unmount", page |-> pg, arg |-> Null, threw |-> FALSE]
    /\ UNCHANGED <<store, storage, prefersDark, attr>>
    /\ UNCHANGED <<fbVars, testerVars, rssVars>>

(* A new instance of the component is rendered in the page: the two        *)
(* useState calls give the initial state, the effect has not run yet.      *)
Render(pg) ==
    /\ phase[pg] = "unmounted"
    /\ phase' = [phase EXCEPT ![pg] = "rendered"]
    /\ preference' = [preference EXCEPT ![pg] = initialPreference]
    /\ isOpen' = [isOpen EXCEPT ![pg] = initialIsOpen]
    /\ last' = [op |-> "render", page |-> pg, arg |-> Null, threw |-> FALSE]
    /\ UNCHANGED <<store, storage, prefersDark, attr, listeners>>
    /\ UNCHANGED <<fbVars, testerVars, rssVars>>

(* onClick={() => setIsOpen(!isOpen)} on the button, which is rendered     *)
(* only once preference is not null.                                       *)
ToggleMenu(pg) ==
    /\ phase[pg] = "mounted"
    /\ preference[pg] # Null
    /\ isOpen' = [isOpen EXCEPT ![pg] = ~isOpen[pg]]
    /\ last' = [op |-> "toggle", page |-> pg, arg |-> Null, threw |-> FALSE]
    /\ UNCHANGED <<store, storage, prefersDark, attr, preference, phase,
                   listeners>>
    /\ UNCHANGED <<fbVars, testerVars, rssVars>>

(* onClick={() => applyTheme(p)} on one of the three menu entries, which   *)
(* are rendered only while isOpen.                                         *)
ClickTheme(pg, p) ==
    /\ phase[pg] = "mounted"
    /\ preference[pg] # Null
    /\ isOpen[pg]
    /\ LET r == applyTheme(PageState(pg), p, prefersDark, storage)
       IN  /\ attr' = [attr EXCEPT ![pg] = r.attr]
           /\ store' = r.store
           /\ preference' = [preference EXCEPT ![pg] = r.preference]
           /\ isOpen' = [isOpen EXCEPT ![pg] = r.isOpen]
           /\ last' = [op |-> "applyTheme", page |-> pg, arg |-> p,
                       threw |-> r.threw]
    /\ UNCHANGED <<storage, prefersDark, phase, listeners>>
    /\ UNCHANGED <<fbVars, testerVars, rssVars>>

(* The OS colour scheme flips and the 'change' event is dispatched to      *)
(* every registered handleChange.                                          *)
OSChange ==
    /\ prefersDark' = ~prefersDark
    /\ attr' = [pg \in Pages |->
                   IF pg \in listeners
                   THEN handleChange(attr[pg], store, preference[pg],
                                     prefersDark', storage)
                   ELSE attr[pg]]
    /\ last' = [op |-> "osChange", page |-> 0, arg |-> Null,
                threw |-> listeners # {} /\ getItemThrows(storage)]
    /\ UNCHANGED <<store, storage, preference, isOpen, phase, listeners>>
    /\ UNCHANGED <<fbVars, testerVars, rssVars>>

(* The origin's storage quota fills up or is freed again. *)
QuotaChange ==
    /\ storage \in {"ok", "full"}
    /\ storage' = IF storage = "ok" THEN "full" ELSE "ok"
    /\ last' = [op |-> "quota", page |-> 0, arg |-> Null, threw |-> FALSE]
    /\ UNCHANGED <<store, prefersDark, attr, preference, isOpen, phase,
                   listeners>>
    /\ UNCHANGED <<fbVars, testerVars, rssVars>>

(* getSystemTheme() is evaluated, in the browser or where window is       *)
(* undefined (server-side rendering); the result is recorded in last.arg.  *)
CallGetSystemTheme(hasWindow) ==
    /\ last' = [op |-> IF hasWindow THEN "getSystemTheme"
                       ELSE "getSystemThemeNoWindow",
                page |-> 0,
                arg |-> getSystemTheme(hasWindow, prefersDark),
                threw |-> FALSE]
    /\ UNCHANGED <<store, storage, prefersDark, attr, preference, isOpen,
                   phase, listeners>>
    /\ UNCHANGED <<fbVars, testerVars, rssVars>>

Next ==
    \/ \E pg \in Pages : Mount(pg)
    \/ \E pg \in Pages : Unmount(pg)
    \/ \E pg \in Pages : Render(pg)
    \/ \E pg \in Pages : ToggleMenu(pg)
    \/ \E pg \in Pages : \E p \in ThemePreference : ClickTheme(pg, p)
    \/ OSChange
    \/ QuotaChange
    \/ \E hasWindow \in BOOLEAN : CallGetSystemTheme(hasWindow)

Spec == Init /\ [][Next]_vars

(* A single page instance on its own: no other page shares the store. *)
ThisPage == 1

NextOnePage ==
    \/ Mount(ThisPage)
    \/ Unmount(ThisPage)
    \/ Render(ThisPage)
    \/ ToggleMenu(ThisPage)
    \/ \E p \in ThemePreference : ClickTheme(ThisPage, p)
    \/ OSChange
    \/ QuotaChange

SpecOnePage == Init /\ [][NextOnePage]_vars

-----------------------------------------------------------------------------
(* The Firebase client module on its own; the theme selector is not        *)
(* rendered.                                                               *)
ThemeIdle ==
    /\ storage = "ok"
    /\ store = Absent
    /\ prefersDark = FALSE
    /\ attr = [pg \in Pages |-> Null]
    /\ preference = [pg \in Pages |-> initialPreference]
    /\ isOpen = [pg \in Pages |-> initialIsOpen]
    /\ phase = [pg \in Pages |-> "rendered"]
    /\ listeners = {}
    /\ last = NoOp

FirebaseInit ==
    /\ ThemeIdle
    /\ env \in EnvValues
    /\ firebaseApp = NoApp
    /\ registry = NoApp
    /\ initCalls = 0
    /\ results = {}
    /\ fbLast = FbNoCall
    /\ TesterIdle
    /\ RssIdle

(* getFirebaseApp(): the cached instance, else the app firebase/app        *)
(* already has, else a new app from a configuration that parses and has    *)
(* every required property, else null.  No statement of it throws:         *)
(* JSON.parse is inside try/catch.                                         *)
GetFirebaseApp ==
    /\ initCalls < MaxApps
    /\ LET cached == firebaseApp # NoApp
           existed == hasExistingApp(registry)
           config == getFirebaseConfig(env)
           usable == ~config.isNull /\ validateConfig(config) = {}
           inited == ~cached /\ ~existed /\ usable
           app == IF cached THEN firebaseApp
                  ELSE IF existed THEN registry
                  ELSE IF usable THEN initCalls + 1
                  ELSE NoApp
       IN  /\ firebaseApp' = app
           /\ registry' = IF inited THEN app ELSE registry
           /\ initCalls' = IF inited THEN initCalls + 1 ELSE initCalls
           /\ results' = results \cup {app}
           /\ fbLast' = [op |-> "getFirebaseApp", app |-> app,
                         ok |-> app # NoApp, inited |-> inited,
                         cached |-> cached,
                         existed |-> registry # NoApp, threw |-> FALSE]
    /\ UNCHANGED env
    /\ UNCHANGED <<themeVars, testerVars, rssVars>>

(* isFirebaseConfigured(): the configuration parses and has every          *)
(* required property.                                                      *)
IsFirebaseConfigured ==
    /\ fbLast' = [op |-> "isFirebaseConfigured", app |-> NoApp,
                  ok |-> isFirebaseConfigured(env),
                  inited |-> FALSE, cached |-> firebaseApp # NoApp,
                  existed |-> registry # NoApp, threw |-> FALSE]
    /\ UNCHANGED <<env, firebaseApp, registry, initCalls, results>>
    /\ UNCHANGED <<themeVars, testerVars, rssVars>>

(* The module is evaluated again (let firebaseApp = null) while            *)
(* firebase/app keeps the apps it has.                                     *)
ModuleReload ==
    /\ firebaseApp' = NoApp
    /\ fbLast' = FbNoCall
    /\ UNCHANGED <<env, registry, initCalls, results>>
    /\ UNCHANGED <<themeVars, testerVars, rssVars>>

(* PUBLIC_FIREBASE_CONFIG is replaced by text that is not a JSON object. *)
SetEnvRaw(k) ==
    /\ env' = [kind |-> k, props |-> NoProps]
    /\ env' # env
    /\ fbLast' = FbNoCall
    /\ UNCHANGED <<firebaseApp, registry, initCalls, results>>
    /\ UNCHANGED <<themeVars, testerVars, rssVars>>

(* PUBLIC_FIREBASE_CONFIG becomes a JSON object that differs in one        *)
(* property.                                                               *)
SetEnvProp(prop, v) ==
    /\ env' = [kind |-> "object", props |-> [env.props EXCEPT ![prop] = v]]
    /\ env' # env
    /\ fbLast' = FbNoCall
    /\ UNCHANGED <<firebaseApp, registry, initCalls, results>>
    /\ UNCHANGED <<themeVars, testerVars, rssVars>>

FirebaseNext ==
    \/ GetFirebaseApp
    \/ IsFirebaseConfigured
    \/ ModuleReload
    \/ \E k \in RawKinds : SetEnvRaw(k)
    \/ \E prop \in RequiredProps : \E v \in PropValues : SetEnvProp(prop, v)

FirebaseSpec == FirebaseInit /\ [][FirebaseNext]_vars

FirebaseTypeOK ==
    /\ env \in EnvValues
    /\ firebaseApp \in 0 .. MaxApps
    /\ registry \in 0 .. MaxApps
    /\ initCalls \in 0 .. MaxApps
    /\ results \subseteq 0 .. MaxApps

TypeOK ==
    /\ store \in StoreValues
    /\ storage \in StorageModes
    /\ prefersDark \in BOOLEAN
    /\ attr \in [Pages -> {Null, "light", "dark"}]
    /\ preference \in [Pages -> {Null, "auto"} \cup ThemePreference]
    /\ isOpen \in [Pages -> BOOLEAN]
    /\ phase \in [Pages -> {"rendered", "mounted", "unmounted", "failed"}]
    /\ listeners \subseteq Pages
    /\ FirebaseIdle

(* The OS appearance as a theme name. *)
OSAppearance == IF prefersDark THEN "dark" ELSE "light"

(* Store contents that getStoredPreference reads as 'system'. *)
ReadsAsSystem == {Absent, "", "system"}

-----------------------------------------------------------------------------
(* The configuration test script on its own. *)

(* 1 for each message pushed. *)
Count(b) == IF b THEN 1 ELSE 0

Tally(e, w, su) == [e |-> e, w |-> w, s |-> su]

(* testEnvironmentVariables(): an error for each required variable that is *)
(* falsy, a warning when the optional one is.                              *)
testEnvironmentVariables(in) ==
    LET noId == Falsy(in.projectId)
        noKey == in.serviceAccountKey.kind = "unset"
        noClient == in.clientConfig = "unset"
    IN  Tally(Count(noId) + Count(noKey),
              Count(noClient),
              Count(~noId) + Count(~noKey) + Count(~noClient))

(* testClientFirebaseConfig(): a warning when unset; an error when the     *)
(* text is not JSON, parses to null (config[field] throws inside the try)  *)
(* or lacks a required field.                                              *)
testClientFirebaseConfig(in) ==
    IF in.clientConfig = "unset" THEN Tally(0, 1, 0)
    ELSE IF in.clientConfig = "complete" THEN Tally(0, 0, 1)
    ELSE Tally(1, 0, 0)

(* testFirebaseAdminConfig(): one error when the key is missing or cannot  *)
(* be used as an object; else one verdict each on the required fields, the *)
(* type and the project id.                                                *)
testFirebaseAdminConfig(in) ==
    LET sa == in.serviceAccountKey
        missing == sa.type = Undef \/ sa.project_id = Undef \/ ~sa.others
        badType == sa.type # "service_account"
        mismatch == sa.project_id # in.projectId
        e == Count(missing) + Count(badType) + Count(mismatch)
    IN  IF sa.kind # "object" THEN Tally(1, 0, 0)
        ELSE Tally(e, 0, 3 - e)

(* testFirebaseProjectFiles(): firebase.json, then .firebaserc. *)
testFirebaseProjectFiles(in) ==
    LET fj == in.firebaseJson
        e == Count(fj = "notjson" \/ fj = "nohosting")
        w == Count(fj = "absent" \/ fj = "other") + Count(~in.firebaserc)
        su == (IF fj = "dist" THEN 2 ELSE IF fj = "other" THEN 1 ELSE 0)
                 + Count(in.firebaserc)
    IN  Tally(e, w, su)

(* Variant of skipInitialization that never skips. *)
skipInitializationNever(errs) == FALSE

(* if (this.errors.length > 0) in testFirebaseAdminInitialization *)
skipInitialization(errs) == errs > 0

(* Variant of generateSummary that also fails on warnings. *)
generateSummaryStrict(errs, warns) == errs = 0 /\ warns = 0

(* generateSummary(): return this.errors.length === 0 *)
generateSummary(errs, warns) == errs = 0

(* process.exit(success ? 0 : 1) *)
exitStatus(success) == IF success THEN 0 ELSE 1

TesterInit ==
    /\ ThemeIdle
    /\ FirebaseIdle
    /\ RssIdle
    /\ tIn \in TesterInputs
    /\ tpc = "env"
    /\ errors = 0
    /\ warnings = 0
    /\ successes = 0
    /\ adminApps = 0
    /\ initState = "none"
    /\ adminInitialized = Undef
    /\ connRan = FALSE
    /\ rejected = FALSE
    /\ exitCode = Running

(* One of the four synchronous checks of runAllTests, in their order. *)
RunCheck(at, tally, next) ==
    /\ tpc = at
    /\ errors' = errors + tally.e
    /\ warnings' = warnings + tally.w
    /\ successes' = successes + tally.s
    /\ tpc' = next
    /\ UNCHANGED <<tIn, adminApps, initState, adminInitialized, connRan,
                   rejected, exitCode>>
    /\ UNCHANGED <<themeVars, fbVars, rssVars>>

TestEnvironmentVariables ==
    RunCheck("env", testEnvironmentVariables(tIn), "client")

TestClientFirebaseConfig ==
    RunCheck("client", testClientFirebaseConfig(tIn), "admin")

TestFirebaseAdminConfig ==
    RunCheck("admin", testFirebaseAdminConfig(tIn), "files")

TestFirebaseProjectFiles ==
    RunCheck("files", testFirebaseProjectFiles(tIn), "init")

(* testFirebaseAdminInitialization() and the if that follows it in         *)
(* runAllTests.  With errors recorded it warns and returns undefined.      *)
(* Otherwise it initialises unless an app exists; JSON.parse, cert or      *)
(* initializeApp may throw, which is caught and recorded as an error.      *)
TestFirebaseAdminInitialization ==
    /\ tpc = "init"
    /\ IF skipInitialization(errors)
       THEN /\ warnings' = warnings + 1
            /\ initState' = "skipped"
            /\ adminInitialized' = Undef
            /\ tpc' = "summary"
            /\ UNCHANGED <<errors, successes, adminApps>>
       ELSE \E throws \in BOOLEAN :
            /\ initState' = "attempted"
            /\ IF (throws \/ tIn.serviceAccountKey.kind # "object")
                  /\ adminApps = 0
               THEN /\ errors' = errors + 1
                    /\ adminInitialized' = "false"
                    /\ tpc' = "summary"
                    /\ UNCHANGED <<successes, adminApps>>
               ELSE /\ successes' = successes + 1
                    /\ adminApps' = 1
                    /\ adminInitialized' = "true"
                    /\ tpc' = "conn"
                    /\ UNCHANGED errors
            /\ UNCHANGED warnings
    /\ UNCHANGED <<tIn, connRan, rejected, exitCode>>
    /\ UNCHANGED <<themeVars, fbVars, rssVars>>

(* testFirestoreConnection(): the query succeeds or throws; a throw is     *)
(* caught and recorded as an error.                                        *)
TestFirestoreConnection ==
    /\ tpc = "conn"
    /\ adminInitialized = "true"
    /\ connRan' = TRUE
    /\ \E throws \in BOOLEAN :
          IF throws
          THEN errors' = errors + 1 /\ UNCHANGED successes
          ELSE successes' = successes + 1 /\ UNCHANGED errors
    /\ tpc' = "summary"
    /\ UNCHANGED <<tIn, warnings, adminApps, initState, adminInitialized,
                   rejected, exitCode>>
    /\ UNCHANGED <<themeVars, fbVars, rssVars>>

(* const success = this.generateSummary(); process.exit(success ? 0 : 1) *)
SummaryAndExit ==
    /\ tpc = "summary"
    /\ exitCode' = exitStatus(generateSummary(errors, warnings))
    /\ tpc' = "exited"
    /\ UNCHANGED <<tIn, errors, warnings, successes, adminApps, initState,
                   adminInitialized, connRan, rejected>>
    /\ UNCHANGED <<themeVars, fbVars, rssVars>>

(* runAllTests rejects with an unexpected error; the catch handler of the  *)
(* main execution reports it and calls process.exit(1).                    *)
UnexpectedError ==
    /\ tpc \notin {"idle", "exited"}
    /\ rejected' = TRUE
    /\ exitCode' = 1
    /\ tpc' = "exited"
    /\ UNCHANGED <<tIn, errors, warnings, successes, adminApps, initState,
                   adminInitialized, connRan>>
    /\ UNCHANGED <<themeVars, fbVars, rssVars>>

TesterNext ==
    \/ TestEnvironmentVariables
    \/ TestClientFirebaseConfig
    \/ TestFirebaseAdminConfig
    \/ TestFirebaseProjectFiles
    \/ TestFirebaseAdminInitialization
    \/ TestFirestoreConnection
    \/ SummaryAndExit
    \/ UnexpectedError

TesterSpec == TesterInit /\ [][TesterNext]_vars

(* The event loop keeps running the script until process.exit. *)
TesterFairSpec == TesterInit /\ [][TesterNext]_vars /\ WF_vars(TesterNext)

-----------------------------------------------------------------------------
(* The RSS endpoint on its own.  Strings are sequences of characters so    *)
(* that the regular expression of getSlug can be applied to them.          *)

MaxPosts == 3

DotMd == <<".", "m", "d">>
DotMdx == <<".", "m", "d", "x">>

(* Post ids: a, a.md, a.mdx, b.md.mdx, c.mdz *)
PostIds ==
    { <<"a">>,
      <<"a">> \o DotMd,
      <<"a">> \o DotMdx,
      <<"b">> \o DotMd \o DotMdx,
      <<"c">> \o DotMd \o <<"z">> }

(* data.draft: optional boolean *)
DraftValues == {Undef, "true", "false"}

(* data.pubDate.valueOf() *)
PubDates == {1, 2}

Posts == [id : PostIds, draft : DraftValues, pubDate : PubDates]

(* The text ends with the suffix: what the anchor $ asks for. *)
EndsWith(text, suffix) ==
    /\ Len(text) >= Len(suffix)
    /\ SubSeq(text, Len(text) - Len(suffix) + 1, Len(text)) = suffix

DropLast(text, n) == SubSeq(text, 1, Len(text) - n)

(* Variant of getSlug that knows only the .md extension. *)
getSlugMdOnly(id) ==
    IF EndsWith(id, DotMd) THEN DropLast(id, Len(DotMd)) ELSE id

(* getSlug(id): id.replace(/\.(md|mdx)$/, '') *)
getSlug(id) ==
    IF EndsWith(id, DotMd) THEN DropLast(id, Len(DotMd))
    ELSE IF EndsWith(id, DotMdx) THEN DropLast(id, Len(DotMdx))
    ELSE id

(* `/blog/${getSlug(post.id)}/` *)
postLink(id) == <<"/", "b", "l", "o", "g", "/">> \o getSlug(id) \o <<"/">>

(* ({ data }) => !data.draft *)
notDraft(post) == post.draft # "true"

(* (a, b) => b.data.pubDate.valueOf() - a.data.pubDate.valueOf() is        *)
(* positive: b goes before a.                                              *)
comesAfter(a, b) == b.pubDate > a.pubDate

(* Array.prototype.sort with that comparator: stable, so an entry goes     *)
(* behind the sorted entries it does not have to precede.                  *)
RECURSIVE insertSorted(_, _)
insertSorted(sorted, post) ==
    IF sorted = <<>> THEN <<post>>
    ELSE IF comesAfter(sorted[Len(sorted)], post)
         THEN Append(insertSorted(DropLast(sorted, 1), post),
                     sorted[Len(sorted)])
         ELSE Append(sorted, post)

RECURSIVE sortPosts(_)
sortPosts(list) ==
    IF list = <<>> THEN <<>>
    ELSE insertSorted(sortPosts(DropLast(list, 1)), list[Len(list)])

(* .map((post) => ({ ..., pubDate, link, ... })); title, description,      *)
(* author and categories are copied from the post as they are.             *)
feedItem(post) == [pubDate |-> post.pubDate, link |-> postLink(post.id)]

(* The items GET passes to rss(). *)
feedItems(collection) ==
    LET chosen == sortPosts(SelectSeq(collection, notDraft))
    IN  [i \in 1..Len(chosen) |-> feedItem(chosen[i])]

postIdsOf(collection) == {collection[i].id : i \in 1..Len(collection)}

(* A file is added to src/content/blog; ids are unique in a collection. *)
AddPost(post) ==
    /\ rssPhase = "content"
    /\ Len(posts) < MaxPosts
    /\ post.id \notin postIdsOf(posts)
    /\ posts' = Append(posts, post)
    /\ UNCHANGED <<feed, rssPhase>>
    /\ UNCHANGED <<themeVars, fbVars, testerVars>>

(* GET(context) *)
GET ==
    /\ feed' = feedItems(posts)
    /\ rssPhase' = "served"
    /\ UNCHANGED posts
    /\ UNCHANGED <<themeVars, fbVars, testerVars>>

RssInit ==
    /\ ThemeIdle
    /\ FirebaseIdle
    /\ TesterIdle
    /\ RssIdle

RssNext ==
    \/ \E post \in Posts : AddPost(post)
    \/ GET

RssSpec == RssInit /\ [][RssNext]_vars

-----------------------------------------------------------------------------
(* C1: on every page whose component has initialised, data-theme equals    *)
(* the resolved appearance of the stored preference: the preference when   *)
(* it is light or dark, the current OS appearance when it is system.       *)
C1_AttrFollowsStoredPreference ==
    \A pg \in Pages :
        phase[pg] = "mounted" =>
            /\ store \in {"light", "dark"} => attr[pg] = store
            /\ store \in ReadsAsSystem => attr[pg] = OSAppearance

(* C2 as claimed: right after applyTheme(p), getStoredPreference()         *)
(* returns p, from every reachable state.                                  *)
C2_StoredIsApplied ==
    last.op = "applyTheme" => getStoredPreference(TRUE, store) = last.arg

(* C2 amended: right after applyTheme(p) in a browser whose store accepts  *)
(* the write, getStoredPreference() returns p itself, not the resolved     *)
(* appearance.                                                             *)
C2_StoredIsAppliedWhenWritable ==
    (last.op = "applyTheme" /\ storage = "ok") =>
        getStoredPreference(TRUE, store) = last.arg

C2_Witness ==
    /\ last.op = "applyTheme"
    /\ last.arg = "system"
    /\ storage = "ok"
    /\ store = "system"

(* C3: right after applyTheme(p), data-theme of that page is p when p is   *)
(* light or dark and the OS appearance when p is system; it is never the   *)
(* literal "system".                                                       *)
C3_AttrIsResolved ==
    last.op = "applyTheme" =>
        /\ last.arg \in {"light", "dark"} => attr[last.page] = last.arg
        /\ last.arg = "system" => attr[last.page] = OSAppearance
        /\ attr[last.page] # "system"

C3_Witness ==
    /\ last.op = "applyTheme"
    /\ last.arg = "system"
    /\ prefersDark
    /\ attr[last.page] = "dark"

(* C4: after an OS colour-scheme change, every mounted page has data-theme *)
(* equal to the new OS appearance whenever the stored preference reads as  *)
(* system; no applyTheme call is involved.                                 *)
C4_SystemFollowsOS ==
    last.op = "osChange" =>
        \A pg \in Pages :
            (phase[pg] = "mounted" /\ store \in ReadsAsSystem) =>
                attr[pg] = OSAppearance

C4_Witness ==
    /\ last.op = "osChange"
    /\ store = "system"
    /\ prefersDark
    /\ \E pg \in Pages : phase[pg] = "mounted" /\ attr[pg] = "dark"

(* C5: while light or dark is stored, an OS colour-scheme change leaves    *)
(* every data-theme attribute, the store and every in-memory preference    *)
(* unchanged.                                                              *)
C5_ExplicitIgnoresOS ==
    [][(prefersDark' # prefersDark /\ store \in {"light", "dark"}) =>
          (attr' = attr /\ store' = store /\ preference' = preference)]_vars

C5_Witness ==
    /\ last.op = "osChange"
    /\ store = "light"
    /\ prefersDark
    /\ \E pg \in listeners : attr[pg] = "light" /\ preference[pg] = "light"

(* C6: the OS-change handler decides on what is stored when the            *)
(* notification fires, whatever the page read at mount or holds in memory: *)
(* it rewrites data-theme to the new OS appearance exactly when the store  *)
(* reads as system, and otherwise leaves it as it was.                     *)
C6_HandlerReadsStoreAtFireTime ==
    [][prefersDark' # prefersDark =>
          \A pg \in listeners :
              attr'[pg] = IF store \in ReadsAsSystem
                          THEN (IF prefersDark' THEN "dark" ELSE "light")
                          ELSE attr[pg]]_vars

(* System was in force on the page, another page then stored dark, and    *)
(* the OS changed to light: the attribute is still dark.                   *)
C6_Witness ==
    /\ last.op = "osChange"
    /\ ~prefersDark
    /\ store = "dark"
    /\ \E pg \in listeners : preference[pg] = "system" /\ attr[pg] = "dark"

(* C7: what the mount initialisation reads with getStoredPreference is     *)
(* one of the three preferences, and is system whenever the stored value   *)
(* is absent or is not one of the three recognised strings.                *)
C7_UnrecognisedReadsAsSystem ==
    (last.op = "mount" /\ ~last.threw) =>
        /\ preference[last.page] \in ThemePreference
        /\ store \notin ThemePreference => preference[last.page] = "system"

(* C8: an OS colour-scheme change does not touch data-theme of a page      *)
(* whose component has been unmounted.                                     *)
C8_NoRewriteAfterUnmount ==
    [][prefersDark' # prefersDark =>
          \A pg \in Pages :
              phase[pg] = "unmounted" => attr'[pg] = attr[pg]]_vars

C8_Witness ==
    /\ last.op = "osChange"
    /\ store = "system"
    /\ prefersDark
    /\ \E pg \in Pages : phase[pg] = "unmounted" /\ attr[pg] = "light"

(* C9: applyTheme is idempotent: applied to any page in any reachable      *)
(* state, with the OS signal and the storage unchanged, a second           *)
(* applyTheme(p) leaves the state the first one produced (attribute,       *)
(* store, in-memory preference, menu).                                     *)
C9_ApplyThemeIdempotent ==
    /\ \A pg \in Pages : \A p \in ThemePreference :
          LET once == applyTheme(PageState(pg), p, prefersDark, storage)
          IN  applyTheme(once, p, prefersDark, storage) = once
    /\ last.op = "applyTheme" =>
          applyTheme(PageState(last.page), last.arg, prefersDark, storage)
              = [PageState(last.page) EXCEPT !.threw = last.threw]

C9_Witness ==
    /\ last.op = "applyTheme"
    /\ ~last.threw
    /\ last.arg = "system"
    /\ ~isOpen[last.page]
    /\ preference[last.page] = "system"

(* C10: with no stored item the mount initialisation reads system; the     *)
(* in-memory preference is the placeholder, neither light nor dark, from   *)
(* the first render until the mount initialisation has read the store;     *)
(* the store never holds the placeholder.                                  *)
C10_PlaceholderUntilMount ==
    /\ (last.op = "mount" /\ ~last.threw /\ store = Absent) =>
          preference[last.page] = "system"
    /\ \A pg \in Pages :
          /\ phase[pg] = "rendered" =>
                preference[pg] = Null /\ preference[pg] \notin {"light", "dark"}
          /\ phase[pg] = "mounted" => preference[pg] # Null
    /\ store # Null

C10_Witness ==
    /\ last.op = "mount"
    /\ store = Absent
    /\ \E pg \in Pages : phase[pg] = "mounted" /\ preference[pg] = "system"
    /\ \E pg \in Pages : phase[pg] = "rendered" /\ preference[pg] = Null

(* C11: in a fresh session with nothing stored and the OS reporting dark,  *)
(* once the component's initialisation has run data-theme is "dark" and    *)
(* the store is still unset.                                               *)
C11_FreshSessionResolvesDark ==
    (last.op = "mount" /\ ~last.threw /\ store = Absent /\ prefersDark) =>
        /\ attr[last.page] = "dark"
        /\ store = Absent

(* C12: when the store write of applyTheme(p) fails, the in-memory         *)
(* preference is p and data-theme is the resolved appearance of p all the  *)
(* same.                                                                   *)
C12_MemoryUpdatedWhenWriteFails ==
    (last.op = "applyTheme" /\ setItemThrows(storage)) =>
        /\ preference[last.page] = last.arg
        /\ attr[last.page] \in {"light", "dark"}

(* C13: no operation of the controller ends in an error surfaced to its    *)
(* caller.                                                                 *)
C13_NothingThrows == ~last.threw

(* C14: only applyTheme changes the stored item, it stores one of the      *)
(* three preferences, and no operation removes the item.                   *)
C14_OnlyApplyThemeWritesStore ==
    [][store' # store =>
          /\ last'.op = "applyTheme"
          /\ store' = last'.arg
          /\ store' \in ThemePreference
          /\ store' # Absent]_vars

(* A page was mounted, followed the OS and was torn down again, and the    *)
(* item is still missing.                                                  *)
C14_Witness ==
    /\ last.op = "unmount"
    /\ store = Absent
    /\ \E pg \in Pages : phase[pg] = "unmounted" /\ attr[pg] = "dark"

(* C15 as claimed: in every reachable state data-theme is exactly "light"  *)
(* or "dark".                                                              *)
C15_AttrLightOrDark ==
    \A pg \in Pages : attr[pg] \in {"light", "dark"}

(* C15 amended: data-theme is missing until it is first written and is     *)
(* otherwise exactly "light" or "dark"; what applyTheme and the OS-change  *)
(* handler write is "light" or "dark" for any stored content.              *)
C15_AttrAbsentLightOrDark ==
    /\ \A pg \in Pages : attr[pg] \in {Null, "light", "dark"}
    /\ last.op = "applyTheme" => attr[last.page] \in {"light", "dark"}
    /\ last.op = "osChange" =>
          \A pg \in listeners :
              store \in ReadsAsSystem => attr[pg] \in {"light", "dark"}

C15_Witness ==
    /\ last.op = "applyTheme"
    /\ last.arg = "system"
    /\ store = "auto"
    /\ attr[last.page] = "light"

(* C16: the registered OS listeners are exactly those of the mounted       *)
(* components, one each: a mount adds one, its teardown removes that one,  *)
(* and nothing else changes the registrations.                             *)
C16_ListenersAreMountedPages ==
    /\ listeners = {pg \in Pages : phase[pg] = "mounted"}
    /\ Cardinality(listeners) =
          Cardinality({pg \in Pages : phase[pg] = "mounted"})

(* One page was torn down without its listener having fired since the     *)
(* mount of the other, which is still subscribed.                          *)
C16_Witness ==
    /\ last.op = "unmount"
    /\ Cardinality(listeners) = 1
    /\ \E pg \in Pages : phase[pg] = "unmounted" /\ attr[pg] = Null

(* C19: getSystemTheme returns dark exactly when the OS prefers dark at    *)
(* the time of the call, light otherwise, and light when there is no       *)
(* window.                                                                 *)
C19_SystemThemeFollowsSignal ==
    /\ last.op = "getSystemTheme" =>
          /\ prefersDark => last.arg = "dark"
          /\ ~prefersDark => last.arg = "light"
    /\ last.op = "getSystemThemeNoWindow" => last.arg = "light"

C19_Witness ==
    /\ last.op = "getSystemThemeNoWindow"
    /\ prefersDark
    /\ last.arg = "light"

(* C20: on a page instance on its own, once initialised, the in-memory     *)
(* preference equals what getStoredPreference reads, and every applyTheme  *)
(* leaves the menu closed.                                                 *)
C20_MemoryMatchesStoreMenuClosed ==
    /\ phase[ThisPage] = "mounted" =>
          preference[ThisPage] = getStoredPreference(TRUE, store)
    /\ last.op = "applyTheme" => ~isOpen[ThisPage]

(* The first half of C20 on its own. *)
C20_MemoryMatchesStore ==
    phase[ThisPage] = "mounted" =>
        preference[ThisPage] = getStoredPreference(TRUE, store)

(* The configuration has every required property set to a non-empty        *)
(* string.                                                                 *)
EnvUsable ==
    /\ env.kind = "object"
    /\ \A prop \in RequiredProps : env.props[prop] = "x"

(* C17: getFirebaseApp calls initializeApp at most once, never when an     *)
(* instance was cached or an app already existed, and all its non-null     *)
(* results are one and the same instance.                                  *)
C17_InitialisedAtMostOnce ==
    /\ initCalls <= 1
    /\ Cardinality(results \ {NoApp}) <= 1
    /\ fbLast.inited => (~fbLast.cached /\ ~fbLast.existed)

(* After a module reload the call returned the app firebase/app already    *)
(* had, without initialising again.                                        *)
C17_Witness ==
    /\ fbLast.op = "getFirebaseApp"
    /\ fbLast.existed
    /\ ~fbLast.cached
    /\ fbLast.app = 1
    /\ initCalls = 1

(* C18: with no app in existence, getFirebaseApp on a configuration that   *)
(* is unset, not JSON or short of a required property returns null, does   *)
(* not throw, does not call initializeApp and leaves the cache null; on a  *)
(* complete configuration it initialises and returns the app.              *)
C18_BadConfigReturnsNull ==
    (fbLast.op = "getFirebaseApp" /\ ~fbLast.cached /\ ~fbLast.existed) =>
        /\ ~EnvUsable =>
              /\ fbLast.app = NoApp
              /\ ~fbLast.threw
              /\ ~fbLast.inited
              /\ firebaseApp = NoApp
              /\ registry = NoApp
        /\ EnvUsable =>
              /\ fbLast.app # NoApp
              /\ fbLast.inited
              /\ firebaseApp = fbLast.app

(* An earlier call returned null and a later one initialised the app. *)
C18_Witness ==
    /\ fbLast.op = "getFirebaseApp"
    /\ NoApp \in results
    /\ fbLast.inited
    /\ fbLast.app = 1

(* C21: applyTheme writes the attribute before the store: when the store   *)
(* write fails, data-theme of the page already holds the newly resolved    *)
(* value while the store, the in-memory preferences and the menus are as   *)
(* they were.                                                              *)
C21_AttrWrittenBeforeFailingStore ==
    [][(last'.op = "applyTheme" /\ storage # "ok") =>
          /\ last'.threw
          /\ last'.arg \in {"light", "dark"} =>
                attr'[last'.page] = last'.arg
          /\ last'.arg = "system" =>
                attr'[last'.page] = IF prefersDark THEN "dark" ELSE "light"
          /\ store' = store
          /\ preference' = preference
          /\ isOpen' = isOpen]_vars

C21_Witness ==
    /\ last.op = "applyTheme"
    /\ last.threw
    /\ last.arg = "dark"
    /\ attr[last.page] = "dark"
    /\ store = "light"
    /\ preference[last.page] = "light"
    /\ isOpen[last.page]

(* C22: while no app exists, getFirebaseApp and isFirebaseConfigured,      *)
(* called one after the other on the same configuration, agree:            *)
(* the app is non-null exactly when the configuration is reported as       *)
(* configured; isFirebaseConfigured initialises nothing and leaves the     *)
(* cache and the app registry alone.                                       *)
C22_ConfiguredIffAppReturned ==
    [][/\ (fbLast.op = "isFirebaseConfigured" /\ fbLast'.op = "getFirebaseApp"
             /\ firebaseApp = NoApp /\ registry = NoApp) =>
            ((fbLast'.app # NoApp) <=> fbLast.ok)
       /\ (fbLast.op = "getFirebaseApp" /\ fbLast.app = NoApp
             /\ fbLast'.op = "isFirebaseConfigured") =>
            ~fbLast'.ok
       /\ fbLast'.op = "isFirebaseConfigured" =>
            /\ firebaseApp' = firebaseApp
            /\ registry' = registry
            /\ initCalls' = initCalls
            /\ ~fbLast'.inited]_vars

(* The configuration was reported as not configured although it is a JSON  *)
(* object, getFirebaseApp has returned null before, and no app exists.     *)
C22_Witness ==
    /\ fbLast.op = "isFirebaseConfigured"
    /\ ~fbLast.ok
    /\ env.kind = "object"
    /\ NoApp \in results
    /\ firebaseApp = NoApp
    /\ registry = NoApp

(* C23: Admin SDK initialisation is attempted exactly when the four        *)
(* preceding checks recorded no error; when it is skipped one warning is   *)
(* recorded and the connection test never runs; the connection test runs   *)
(* only after initialisation returned true.                                *)
C23_InitOnlyWithoutErrors ==
    [][/\ (initState = "none" /\ initState' = "attempted") =>
            (tpc = "init" /\ errors = 0)
       /\ (initState = "none" /\ initState' = "skipped") =>
            /\ tpc = "init"
            /\ errors > 0
            /\ warnings' = warnings + 1
            /\ tpc' # "conn"
       /\ (~connRan /\ connRan') =>
            (initState = "attempted" /\ adminInitialized = "true")
       /\ initState' = "skipped" => ~connRan']_vars

C23_Witness ==
    /\ tpc = "exited"
    /\ ~rejected
    /\ initState = "skipped"
    /\ ~connRan
    /\ errors = 1
    /\ warnings >= 1

(* C24: every run ends in process.exit; the exit code is 0 exactly when no *)
(* check recorded an error and runAllTests did not reject, and 1           *)
(* otherwise, whatever the number of warnings.                             *)
C24_ExitCodeIffNoErrors ==
    /\ [](tpc = "exited" =>
            /\ exitCode \in {0, 1}
            /\ exitCode = 0 <=> (errors = 0 /\ ~rejected))
    /\ [](tpc # "exited" => exitCode = Running)
    /\ <>(tpc = "exited")

(* A run with warnings and no error has exited with 0. *)
C24_Witness ==
    /\ tpc = "exited"
    /\ exitCode = 0
    /\ warnings > 0
    /\ connRan

(* The link the feed is to carry for a post id: /blog/<id>/ with one       *)
(* trailing .md or .mdx taken off the id.                                  *)
ExpectedLink(id) ==
    CHOOSE link \in { <<"/", "b", "l", "o", "g", "/">> \o stem \o <<"/">> :
                        stem \in {SubSeq(id, 1, n) : n \in 0..Len(id)} } :
        \E stem \in {SubSeq(id, 1, n) : n \in 0..Len(id)} :
            /\ link = <<"/", "b", "l", "o", "g", "/">> \o stem \o <<"/">>
            /\ \/ id = stem \o DotMd
               \/ id = stem \o DotMdx
               \/ /\ stem = id
                  /\ ~EndsWith(id, DotMd)
                  /\ ~EndsWith(id, DotMdx)

(* C25: the feed GET produced has one item for every post of the          *)
(* collection that is not a draft and no other item, its items run from    *)
(* the newest publication date to the oldest, and each item links to       *)
(* /blog/<id>/ with a trailing .md or .mdx removed from the post id.       *)
C25_FeedIsPublishedPostsNewestFirst ==
    rssPhase = "served" =>
        LET published == {i \in 1..Len(posts) : posts[i].draft # "true"}
        IN  /\ \E f \in [1..Len(feed) -> 1..Len(posts)] :
                /\ \A i, j \in 1..Len(feed) : f[i] = f[j] => i = j
                /\ {f[i] : i \in 1..Len(feed)} = published
                /\ \A i \in 1..Len(feed) :
                      /\ feed[i].pubDate = posts[f[i]].pubDate
                      /\ feed[i].link = ExpectedLink(posts[f[i]].id)
            /\ \A i, j \in 1..Len(feed) :
                  i < j => feed[i].pubDate >= feed[j].pubDate

(* A feed was built from a collection holding a draft and, in ascending    *)
(* date order, an .md post and an .mdx post.                               *)
C25_Witness ==
    /\ rssPhase = "served"
    /\ Len(posts) = 3
    /\ Len(feed) = 2
    /\ \E i \in 1..3 : posts[i].draft = "true"
    /\ \E i, j \in 1..3 :
          /\ i < j
          /\ posts[i].pubDate < posts[j].pubDate
          /\ posts[i].draft = Undef
          /\ posts[j].draft = "false"
          /\ posts[i].id = <<"a">> \o DotMd
          /\ posts[j].id = <<"b">> \o DotMd \o DotMdx
    /\ feed[1].link = <<"/", "b", "l", "o", "g", "/", "b", ".", "m", "d", "/">>
    /\ feed[2].link = <<"/", "b", "l", "o", "g", "/", "a", "/">>

=============================================================================
